---- MODULE Spec2Model ----
(***************************************************************************)
(* A model of package twilio (src/twilio.go): the Context interface, its   *)
(* implementation `context`, and HandlerFunc.ServeHTTP, which wraps what a *)
(* handler appends in the TwiML envelope and writes it to the response     *)
(* writer.                                                                 *)
(*                                                                         *)
(* Strings are sequences of one-character strings, so that concatenation,  *)
(* formatting and parsing are computed and not assumed.  The library calls *)
(* the package makes (bytes.Buffer, http.Request.FormValue, strconv.Atoi,  *)
(* fmt.Sprintf) are modelled by what the Go library does.                  *)
(***************************************************************************)
EXTENDS Integers, Sequences, FiniteSets, TLC

----------------------------------------------------------------------------
(* Bounds of the model *)

\* number of requests the server may serve concurrently
NumRequests == 2
\* number of Context method calls one handler invocation makes
MaxCalls == 2
\* number of calls made on a context its handler kept, after ServeHTTP returned
MaxLate == 1
\* length of a form value
MaxValLen == 3
\* number of arguments passed to Responsef
MaxArgs == 2
\* width in bits of Go's int and of the unsigned accumulator of
\* strconv.ParseUint (64 on the usual platforms; the arithmetic below is
\* written for any width)
IntSize == 7

Requests == 1..NumRequests

\* the request the single-request specifications follow
Solo == CHOOSE r \in Requests : \A q \in Requests : r <= q

----------------------------------------------------------------------------
(* Text *)

\* const start (twilio.go:56)
start == <<"<", "?", "x", "m", "l", " ", "v", "e", "r", "s", "i", "o", "n", "=", "\"", "1", ".", "0", "\"", " ", "e", "n", "c", "o", "d", "i", "n", "g", "=", "\"", "U", "T", "F", "-", "8", "\"", "?", ">", "<", "R", "e", "s", "p", "o", "n", "s", "e", ">">>

\* const end (twilio.go:57)
end == <<"<", "/", "R", "e", "s", "p", "o", "n", "s", "e", ">">>

HangupTagUnclosed == <<"<", "H", "a", "n", "g", "u", "p", ">">>

\* the literal passed by Hangup (twilio.go:96)
HangupTag == <<"<", "H", "a", "n", "g", "u", "p", "/", ">">>

SayHi == <<"<", "S", "a", "y", ">", "H", "i", "<", "/", "S", "a", "y", ">">>
SayHello == <<"<", "S", "a", "y", ">", "H", "e", "l", "l", "o", "<", "/", "S", "a", "y", ">">>
SayOpen == <<"<", "S", "a", "y", ">">>
SayClose == <<"<", "/", "S", "a", "y", ">">>
Hello == <<"H", "e", "l", "l", "o">>

RECURSIVE Concat(_)
Concat(ss) == IF ss = <<>> THEN <<>> ELSE Head(ss) \o Concat(Tail(ss))

RECURSIVE SeqsUpTo(_, _)
SeqsUpTo(S, k) ==
  IF k = 0 THEN {<<>>}
  ELSE LET shorter == SeqsUpTo(S, k - 1)
       IN  shorter \cup {Append(q, x) : q \in shorter, x \in S}

RECURSIVE Pow2(_)
Pow2(k) == IF k = 0 THEN 1 ELSE 2 * Pow2(k - 1)

----------------------------------------------------------------------------
(* bytes.Buffer, as ServeHTTP and context use it *)

\* bytes.NewBufferString(s): a buffer whose unread content is s
NewBufferString(s) == s

WriteStringSeparated(content, s) == content \o <<" ">> \o s

\* (*bytes.Buffer).WriteString(s): s is appended to the content
WriteString(content, s) == content \o s

\* (*bytes.Buffer).WriteTo(w) hands the whole unread content to one w.Write
\* call; Write reports m accepted bytes, and the buffer keeps the rest (a
\* complete write resets the buffer, which leaves it empty as well).
Drain(content, m) == SubSeq(content, m + 1, Len(content))

\* what a Write call may report: everything accepted, or an error after a
\* part (here the opening tag) or after nothing
WriteOutcomes == {"all", "part", "none"}

Accepted(content, outcome) ==
  CASE outcome = "all" -> Len(content)
    [] outcome = "part" -> IF Len(content) < Len(start) THEN Len(content) ELSE Len(start)
    [] outcome = "none" -> 0

----------------------------------------------------------------------------
(* http.Request.FormValue *)

Keys == {"x", "y"}

FormValueLast(f, key) ==
  IF key \in DOMAIN f /\ Len(f[key]) > 0 THEN f[key][Len(f[key])] ELSE <<>>

\* r.FormValue(key): the first value for key, "" when there is none.  A form f
\* maps the keys present in the request to their values.
FormValue(f, key) ==
  IF key \in DOMAIN f /\ Len(f[key]) > 0 THEN f[key][1] ELSE <<>>

----------------------------------------------------------------------------
(* strconv.Atoi, base 10, for an int of IntSize bits *)

Digits == {"0", "1", "2", "3", "4", "5", "6", "7", "8", "9"}

DigitVal(c) ==
  CASE c = "0" -> 0 [] c = "1" -> 1 [] c = "2" -> 2 [] c = "3" -> 3
    [] c = "4" -> 4 [] c = "5" -> 5 [] c = "6" -> 6 [] c = "7" -> 7
    [] c = "8" -> 8 [] c = "9" -> 9

MaxInt == Pow2(IntSize - 1) - 1
MinInt == -Pow2(IntSize - 1)
MaxUint == Pow2(IntSize) - 1

RECURSIVE DecDigits(_)
DecDigits(x) == IF x < 10 THEN 1 ELSE 1 + DecDigits(x \div 10)

\* the loop of strconv.ParseUint: n is the unsigned accumulator, which wraps
RECURSIVE ParseUintLoop(_, _, _)
ParseUintLoop(s, i, acc) ==
  IF i > Len(s) THEN [v |-> acc, err |-> "nil"]
  ELSE IF s[i] \notin Digits THEN [v |-> 0, err |-> "syntax"]
  ELSE IF acc >= MaxUint \div 10 + 1 THEN [v |-> MaxUint, err |-> "range"]
  ELSE LET n10 == (acc * 10) % Pow2(IntSize)
           n1  == (n10 + DigitVal(s[i])) % Pow2(IntSize)
       IN  IF n1 < n10 \/ n1 > MaxUint
           THEN [v |-> MaxUint, err |-> "range"]
           ELSE ParseUintLoop(s, i + 1, n1)

\* strconv.ParseUint(s, 10, 0)
ParseUint(s) ==
  IF s = <<>> THEN [v |-> 0, err |-> "syntax"] ELSE ParseUintLoop(s, 1, 0)

\* strconv.ParseInt(s, 10, 0): a value out of range comes back as the
\* nearest int together with the range error
ParseInt(s) ==
  IF s = <<>> THEN [v |-> 0, err |-> "syntax"]
  ELSE LET neg    == s[1] = "-"
           body   == IF s[1] \in {"+", "-"} THEN Tail(s) ELSE s
           un     == ParseUint(body)
           cutoff == Pow2(IntSize - 1)
       IN  IF un.err = "syntax" THEN [v |-> 0, err |-> "syntax"]
           ELSE IF ~neg /\ un.v >= cutoff THEN [v |-> cutoff - 1, err |-> "range"]
           ELSE IF neg /\ un.v > cutoff THEN [v |-> -cutoff, err |-> "range"]
           ELSE [v |-> IF neg THEN -un.v ELSE un.v, err |-> "nil"]

\* the fast path of strconv.Atoi, taken by strings too short to overflow
RECURSIVE AtoiFastLoop(_, _, _)
AtoiFastLoop(s, i, acc) ==
  IF i > Len(s) THEN [v |-> acc, err |-> "nil"]
  ELSE IF s[i] \notin Digits THEN [v |-> 0, err |-> "syntax"]
  ELSE AtoiFastLoop(s, i + 1, acc * 10 + DigitVal(s[i]))

AtoiFast(s) ==
  LET body == IF s[1] \in {"+", "-"} THEN Tail(s) ELSE s
      res  == AtoiFastLoop(body, 1, 0)
  IN  IF body = <<>> \/ res.err = "syntax" THEN [v |-> 0, err |-> "syntax"]
      ELSE [v |-> IF s[1] = "-" THEN -res.v ELSE res.v, err |-> "nil"]

\* strconv.Atoi(s): the value and the error
Atoi(s) ==
  IF 0 < Len(s) /\ Len(s) < DecDigits(MaxInt) THEN AtoiFast(s) ELSE ParseInt(s)

----------------------------------------------------------------------------
(* fmt.Sprintf, for the verbs %s %d %v %% and for malformed directives.    *)
(* An argument is a record of its type t and its value, s or i.  The       *)
(* formats used below carry no flags, widths, precisions or indexes.       *)

StringArg(s) == [t |-> "string", s |-> s, i |-> 0]
IntArg(i) == [t |-> "int", s |-> <<>>, i |-> i]

DigitChar(d) == SubSeq(<<"0", "1", "2", "3", "4", "5", "6", "7", "8", "9">>, d + 1, d + 1)

RECURSIVE FormatUint(_)
FormatUint(x) == IF x < 10 THEN DigitChar(x) ELSE FormatUint(x \div 10) \o DigitChar(x % 10)

\* the decimal text of an int (fmtInteger, base 10)
FormatInt(i) == IF i < 0 THEN <<"-">> \o FormatUint(-i) ELSE FormatUint(i)

TypeName(a) ==
  IF a.t = "string" THEN <<"s", "t", "r", "i", "n", "g">> ELSE <<"i", "n", "t">>

\* printArg(a, 'v')
PrintV(a) == IF a.t = "string" THEN a.s ELSE FormatInt(a.i)

\* (*pp).badVerb: %!verb(type=value)
BadVerb(a, verb) ==
  <<"%", "!", verb, "(">> \o TypeName(a) \o <<"=">> \o PrintV(a) \o <<")">>

\* (*pp).printArg(a, verb): fmtString accepts v and s, fmtInteger v and d
PrintArg(a, verb) ==
  IF (a.t = "string" /\ verb \in {"v", "s"}) \/ (a.t = "int" /\ verb \in {"v", "d"})
  THEN PrintV(a)
  ELSE BadVerb(a, verb)

\* (*pp).missingArg: %!verb(MISSING)
MissingArg(verb) == <<"%", "!", verb, "(", "M", "I", "S", "S", "I", "N", "G", ")">>

NoVerb == <<"%", "!", "(", "N", "O", "V", "E", "R", "B", ")">>

RECURSIVE ExtraList(_, _)
ExtraList(args, i) ==
  IF i > Len(args) THEN <<>>
  ELSE TypeName(args[i]) \o <<"=">> \o PrintV(args[i])
       \o (IF i < Len(args) THEN <<",", " ">> ELSE <<>>)
       \o ExtraList(args, i + 1)

\* the end of doPrintf: the arguments no verb used are listed
Extra(args, argNum) ==
  IF argNum < Len(args)
  THEN <<"%", "!", "(", "E", "X", "T", "R", "A", " ">> \o ExtraList(args, argNum + 1) \o <<")">>
  ELSE <<>>

\* the loop of (*pp).doPrintf from position i, with argNum arguments used
RECURSIVE DoPrintf(_, _, _, _)
DoPrintf(format, i, args, argNum) ==
  IF i > Len(format) THEN Extra(args, argNum)
  ELSE IF format[i] # "%" THEN <<format[i]>> \o DoPrintf(format, i + 1, args, argNum)
  ELSE IF i + 1 > Len(format) THEN NoVerb \o Extra(args, argNum)
  ELSE LET verb == format[i + 1]
       IN  IF verb = "%" THEN <<"%">> \o DoPrintf(format, i + 2, args, argNum)
           ELSE IF argNum >= Len(args)
                THEN MissingArg(verb) \o DoPrintf(format, i + 2, args, argNum)
                ELSE PrintArg(args[argNum + 1], verb)
                     \o DoPrintf(format, i + 2, args, argNum + 1)

\* fmt.Sprintf(format, args...)
Sprintf(format, args) == DoPrintf(format, 1, args, 0)

----------------------------------------------------------------------------
(* State *)

VARIABLES
  pc,      \* pc[r]: where ServeHTTP is for request r
  form,    \* form[r]: the form values of request r (c.r)
  cb,      \* cb[r]: the buffer the context of request r points to (c.b), 0: none
  buf,     \* buf[i]: the unread content of buffer i
  w,       \* w[r]: the byte slices handed to the Write of r's ResponseWriter
  ret,     \* ret[r]: what the last Value or IntValue call on r's context returned
  log,     \* log[r]: the Response, Responsef and Hangup calls r's handler made
  ncalls,  \* ncalls[r]: the number of Context calls r's handler made
  late     \* late[r]: the number of calls on r's context after ServeHTTP returned

vars == <<pc, form, cb, buf, w, ret, log, ncalls, late>>

BufIds == Requests

NoForm == <<>>
FormOf(key, values) == [k \in {key} |-> values]

NoRet == [op |-> "none", key |-> "", str |-> <<>>, int |-> 0]

Init ==
  /\ pc = [r \in Requests |-> "idle"]
  /\ form = [r \in Requests |-> NoForm]
  /\ cb = [r \in Requests |-> 0]
  /\ buf = [i \in BufIds |-> <<>>]
  /\ w = [r \in Requests |-> <<>>]
  /\ ret = [r \in Requests |-> NoRet]
  /\ log = [r \in Requests |-> <<>>]
  /\ ncalls = [r \in Requests |-> 0]
  /\ late = [r \in Requests |-> 0]

----------------------------------------------------------------------------
(* HandlerFunc.ServeHTTP *)

SharedBufferId(r) == 1

\* bytes.NewBufferString allocates: the buffer of request r is its own
NewBufferId(r) == r

\* b := bytes.NewBufferString(start); fn(&context{b, r}) is entered
Serve(r, f) ==
  /\ pc[r] = "idle"
  /\ cb' = [cb EXCEPT ![r] = NewBufferId(r)]
  /\ buf' = [buf EXCEPT ![NewBufferId(r)] = NewBufferString(start)]
  /\ form' = [form EXCEPT ![r] = f]
  /\ pc' = [pc EXCEPT ![r] = "handler"]
  /\ UNCHANGED <<w, ret, log, ncalls, late>>

\* fn returns
HandlerReturn(r) ==
  /\ pc[r] = "handler"
  /\ pc' = [pc EXCEPT ![r] = "returned"]
  /\ UNCHANGED <<form, cb, buf, w, ret, log, ncalls, late>>

HandlerPanicDeferredFlush(r) ==
  /\ pc[r] = "handler"
  /\ pc' = [pc EXCEPT ![r] = "panicked"]
  /\ w' = [w EXCEPT ![r] = Append(@, WriteString(buf[cb[r]], end))]
  /\ UNCHANGED <<form, cb, buf, ret, log, ncalls, late>>

\* fn panics: ServeHTTP has no deferred call and no recover, the panic
\* leaves it without running the two statements after fn
HandlerPanic(r) ==
  /\ pc[r] = "handler"
  /\ pc' = [pc EXCEPT ![r] = "panicked"]
  /\ UNCHANGED <<form, cb, buf, w, ret, log, ncalls, late>>

\* b.WriteString(end)
WriteEnd(r) ==
  /\ pc[r] = "returned"
  /\ buf' = [buf EXCEPT ![cb[r]] = WriteString(@, end)]
  /\ pc' = [pc EXCEPT ![r] = "closed"]
  /\ UNCHANGED <<form, cb, w, ret, log, ncalls, late>>

\* b.WriteTo(w): one Write call with the whole content, of which the writer
\* accepts all, a part or nothing; the result of WriteTo is dropped
WriteTo(r, outcome) ==
  /\ pc[r] = "closed"
  /\ w' = [w EXCEPT ![r] = IF Len(buf[cb[r]]) > 0 THEN Append(@, buf[cb[r]]) ELSE @]
  /\ buf' = [buf EXCEPT ![cb[r]] = Drain(@, Accepted(@, outcome))]
  /\ pc' = [pc EXCEPT ![r] = "done"]
  /\ UNCHANGED <<form, cb, ret, log, ncalls, late>>

----------------------------------------------------------------------------
(* type context *)

\* func (c *context) Value: the value returned
ctxValue(r, key) == FormValue(form[r], key)

\* func (c *context) IntValue: the value returned; the error is dropped
ctxIntValue(r, key) == Atoi(FormValue(form[r], key)).v

ctxResponseEager(r, s) ==
  /\ w' = [w EXCEPT ![r] = Append(@, s)]
  /\ UNCHANGED <<buf, form>>

\* func (c *context) Response
ctxResponse(r, s) ==
  /\ buf' = [buf EXCEPT ![cb[r]] = WriteString(@, s)]
  /\ UNCHANGED <<w, form>>

ctxResponsefVerbatim(r, format, args) == ctxResponse(r, format)

\* func (c *context) Responsef
ctxResponsef(r, format, args) == ctxResponse(r, Sprintf(format, args))

\* func (c *context) Hangup
ctxHangup(r) == ctxResponse(r, HangupTag)

----------------------------------------------------------------------------
(* The calls a handler makes on its Context *)

InHandler(r) == pc[r] = "handler" /\ ncalls[r] < MaxCalls

Called(r) == ncalls' = [ncalls EXCEPT ![r] = @ + 1]

Logged(r, op, s, args) ==
  log' = [log EXCEPT ![r] = Append(@, [op |-> op, s |-> s, args |-> args])]

ValueEcho(r, key) ==
  /\ InHandler(r)
  /\ ret' = [ret EXCEPT ![r] =
               [op |-> "Value", key |-> key, str |-> ctxValue(r, key), int |-> 0]]
  /\ buf' = [buf EXCEPT ![cb[r]] = WriteString(@, ctxValue(r, key))]
  /\ Called(r)
  /\ UNCHANGED <<pc, form, cb, w, log, late>>

Value(r, key) ==
  /\ InHandler(r)
  /\ ret' = [ret EXCEPT ![r] =
               [op |-> "Value", key |-> key, str |-> ctxValue(r, key), int |-> 0]]
  /\ Called(r)
  /\ UNCHANGED <<pc, form, cb, buf, w, log, late>>

IntValue(r, key) ==
  /\ InHandler(r)
  /\ ret' = [ret EXCEPT ![r] =
               [op |-> "IntValue", key |-> key, str |-> <<>>, int |-> ctxIntValue(r, key)]]
  /\ Called(r)
  /\ UNCHANGED <<pc, form, cb, buf, w, log, late>>

Response(r, s) ==
  /\ InHandler(r)
  /\ ctxResponse(r, s)
  /\ Logged(r, "Response", s, <<>>)
  /\ Called(r)
  /\ UNCHANGED <<pc, cb, ret, late>>

Responsef(r, format, args) ==
  /\ InHandler(r)
  /\ ctxResponsef(r, format, args)
  /\ Logged(r, "Responsef", format, args)
  /\ Called(r)
  /\ UNCHANGED <<pc, cb, ret, late>>

Hangup(r) ==
  /\ InHandler(r)
  /\ ctxHangup(r)
  /\ Logged(r, "Hangup", <<>>, <<>>)
  /\ Called(r)
  /\ UNCHANGED <<pc, cb, ret, late>>

\* a call of Response on the context of a request ServeHTTP has returned
\* from: the handler was given a pointer and may have kept it
LateResponse(r, s) ==
  /\ pc[r] = "done"
  /\ late[r] < MaxLate
  /\ ctxResponse(r, s)
  /\ late' = [late EXCEPT ![r] = @ + 1]
  /\ UNCHANGED <<pc, cb, ret, log, ncalls>>

----------------------------------------------------------------------------
(* Specifications *)

V42 == <<"4", "2">>

\* the requests, fragments and formats of the single-request specification
SoloForms == {NoForm, FormOf("x", <<V42>>)}
Fragments == {SayHi, HangupTag}
SayFormatS == SayOpen \o <<"%", "s">> \o SayClose
SayFormatD == SayOpen \o <<"%", "d">> \o SayClose
SoloFormats == {SayFormatS, SayFormatD}

\* one request, every operation
Next ==
  \/ \E f \in SoloForms : Serve(Solo, f)
  \/ \E k \in Keys : Value(Solo, k)
  \/ \E k \in Keys : IntValue(Solo, k)
  \/ \E s \in Fragments : Response(Solo, s)
  \/ \E f \in SoloFormats : Responsef(Solo, f, <<StringArg(Hello)>>)
  \/ Hangup(Solo)
  \/ HandlerReturn(Solo)
  \/ HandlerPanic(Solo)
  \/ WriteEnd(Solo)
  \/ \E o \in WriteOutcomes : WriteTo(Solo, o)
  \/ \E s \in Fragments : LateResponse(Solo, s)

Spec == Init /\ [][Next]_vars

\* requests served concurrently, each step of each ServeHTTP interleaved
NextConc ==
  \E r \in Requests :
    \/ Serve(r, NoForm)
    \/ Response(r, SayHi)
    \/ Hangup(r)
    \/ HandlerReturn(r)
    \/ WriteEnd(r)
    \/ WriteTo(r, "all")

SpecConc == Init /\ [][NextConc]_vars

\* one request whose form is drawn from the texts over ValChars
ValChars == {"0", "2", "4", "9", "-", "+", "a"}
FormValues == SeqsUpTo(ValChars, MaxValLen)
ValueForms ==
  {NoForm} \cup {FormOf("x", <<v>>) : v \in FormValues}
           \cup {FormOf("x", <<v, V42>>) : v \in SeqsUpTo(ValChars, 1)}

NextValues ==
  \/ \E f \in ValueForms : Serve(Solo, f)
  \/ \E k \in Keys : Value(Solo, k)
  \/ \E k \in Keys : IntValue(Solo, k)
  \/ HandlerReturn(Solo)

SpecValues == Init /\ [][NextValues]_vars

\* one request whose handler formats: at most one Responsef call, among
\* Response calls
Directives ==
  {<<>>, <<"%">>, <<"%", "s">>, <<"%", "d">>, <<"%", "v">>, <<"%", "%">>,
   <<"%", "z">>, <<"%", "s", "%", "d">>}
FormatCases ==
  {pre \o d \o post : pre \in {<<>>, SayOpen}, d \in Directives, post \in {<<>>, SayClose}}
ArgValues == {StringArg(Hello), IntArg(42), IntArg(-7)}
ArgLists == SeqsUpTo(ArgValues, MaxArgs)

NoResponsefYet(r) == \A i \in 1..Len(log[r]) : log[r][i].op # "Responsef"

ResponsefOnce(r, format, args) == NoResponsefYet(r) /\ Responsef(r, format, args)

NextFormat ==
  \/ Serve(Solo, NoForm)
  \/ Response(Solo, SayHello)
  \/ \E f \in FormatCases, a \in ArgLists : ResponsefOnce(Solo, f, a)
  \/ HandlerReturn(Solo)
  \/ WriteEnd(Solo)
  \/ WriteTo(Solo, "all")

SpecFormat == Init /\ [][NextFormat]_vars

----------------------------------------------------------------------------
(* Properties *)

\* the fragment a logged call appends
Fragment(e) ==
  CASE e.op = "Response" -> e.s
    [] e.op = "Hangup" -> HangupTag
    [] e.op = "Responsef" -> Sprintf(e.s, e.args)

\* the fragments of the calls r's handler made, in call order
Appended(r) == Concat([i \in 1..Len(log[r]) |-> Fragment(log[r][i])])

\* the envelope around what r's handler appended
Envelope(r) == start \o Appended(r) \o end

HasPrefix(s, p) == Len(s) >= Len(p) /\ SubSeq(s, 1, Len(p)) = p
HasSuffix(s, p) == Len(s) >= Len(p) /\ SubSeq(s, Len(s) - Len(p) + 1, Len(s)) = p

\* a complete envelope: the opening tag, then anything, then the closing tag
IsEnvelope(s) == Len(s) >= Len(start) + Len(end) /\ HasPrefix(s, start) /\ HasSuffix(s, end)

ResponseEntry(s) == [op |-> "Response", s |-> s, args |-> <<>>]
HangupEntry == [op |-> "Hangup", s |-> <<>>, args |-> <<>>]
ResponsefEntry(format, args) == [op |-> "Responsef", s |-> format, args |-> args]

EmptyWire == <<"<", "?", "x", "m", "l", " ", "v", "e", "r", "s", "i", "o", "n", "=", "\"", "1", ".", "0", "\"", " ", "e", "n", "c", "o", "d", "i", "n", "g", "=", "\"", "U", "T", "F", "-", "8", "\"", "?", ">", "<", "R", "e", "s", "p", "o", "n", "s", "e", ">", "<", "/", "R", "e", "s", "p", "o", "n", "s", "e", ">">>
SayHiHangupWire == <<"<", "?", "x", "m", "l", " ", "v", "e", "r", "s", "i", "o", "n", "=", "\"", "1", ".", "0", "\"", " ", "e", "n", "c", "o", "d", "i", "n", "g", "=", "\"", "U", "T", "F", "-", "8", "\"", "?", ">", "<", "R", "e", "s", "p", "o", "n", "s", "e", ">", "<", "S", "a", "y", ">", "H", "i", "<", "/", "S", "a", "y", ">", "<", "H", "a", "n", "g", "u", "p", "/", ">", "<", "/", "R", "e", "s", "p", "o", "n", "s", "e", ">">>
HangupText == <<"<", "H", "a", "n", "g", "u", "p", "/", ">">>
HangupWire == <<"<", "?", "x", "m", "l", " ", "v", "e", "r", "s", "i", "o", "n", "=", "\"", "1", ".", "0", "\"", " ", "e", "n", "c", "o", "d", "i", "n", "g", "=", "\"", "U", "T", "F", "-", "8", "\"", "?", ">", "<", "R", "e", "s", "p", "o", "n", "s", "e", ">", "<", "H", "a", "n", "g", "u", "p", "/", ">", "<", "/", "R", "e", "s", "p", "o", "n", "s", "e", ">">>
SayHelloWire == <<"<", "?", "x", "m", "l", " ", "v", "e", "r", "s", "i", "o", "n", "=", "\"", "1", ".", "0", "\"", " ", "e", "n", "c", "o", "d", "i", "n", "g", "=", "\"", "U", "T", "F", "-", "8", "\"", "?", ">", "<", "R", "e", "s", "p", "o", "n", "s", "e", ">", "<", "S", "a", "y", ">", "H", "e", "l", "l", "o", "<", "/", "S", "a", "y", ">", "<", "/", "R", "e", "s", "p", "o", "n", "s", "e", ">">>
SayWrongType == <<"<", "S", "a", "y", ">", "%", "!", "d", "(", "s", "t", "r", "i", "n", "g", "=", "H", "e", "l", "l", "o", ")", "<", "/", "S", "a", "y", ">">>
SayMissing == <<"<", "S", "a", "y", ">", "%", "!", "s", "(", "M", "I", "S", "S", "I", "N", "G", ")", "<", "/", "S", "a", "y", ">">>
SayExtra == <<"<", "S", "a", "y", ">", "H", "e", "l", "l", "o", "<", "/", "S", "a", "y", ">", "%", "!", "(", "E", "X", "T", "R", "A", " ", "i", "n", "t", "=", "4", "2", ")">>

\* C1: when ServeHTTP is done, what it handed to the response writer is the
\* opening tag, then the fragments of the handler's Response, Responsef and
\* Hangup calls concatenated in call order with nothing between them, then
\* the closing tag; no call gives the opening tag directly followed by the
\* closing tag, and Response("<Say>Hi</Say>") then Response("<Hangup/>")
\* gives <Response><Say>Hi</Say><Hangup/></Response> after the XML header.
C1_Payload ==
  \A r \in Requests :
    pc[r] = "done" =>
      /\ w[r] = <<Envelope(r)>>
      /\ log[r] = <<>> => w[r] = <<EmptyWire>>
      /\ log[r] = <<ResponseEntry(SayHi), ResponseEntry(HangupTag)>> =>
           w[r] = <<SayHiHangupWire>>

C1_Witness ==
  /\ pc[Solo] = "done"
  /\ log[Solo] = <<ResponseEntry(SayHi), ResponseEntry(HangupTag)>>
  /\ w[Solo] = <<SayHiHangupWire>>

\* C2: the response writer is handed nothing until ServeHTTP has appended
\* the closing tag; it is then handed the buffer in one Write call, so what
\* it has been handed is nothing or one complete envelope, and a Write that
\* fails is not followed by another.
C2_BufferedFlush ==
  \A r \in Requests :
    /\ pc[r] # "done" => w[r] = <<>>
    /\ Len(w[r]) <= 1
    /\ \A i \in 1..Len(w[r]) : IsEnvelope(w[r][i])

C2_Witness ==
  /\ pc[Solo] = "done"
  /\ Len(log[Solo]) = 2
  /\ Len(w[Solo]) = 1
  /\ late[Solo] = 0
  /\ buf[cb[Solo]] = w[Solo][1]

\* C3: once ServeHTTP is done with a request, no step changes the buffer of
\* its context or what was handed to its response writer.
C3_ClosedIsTerminal ==
  [][\A r \in Requests :
       pc[r] = "done" => buf'[cb[r]] = buf[cb[r]] /\ w'[r] = w[r]]_vars

\* a text is a base-10 int literal: an optional sign, then digits
IsDecimal(s) ==
  /\ s # <<>>
  /\ LET body == IF s[1] \in {"+", "-"} THEN Tail(s) ELSE s
     IN  body # <<>> /\ \A i \in 1..Len(body) : body[i] \in Digits

RECURSIVE DigitsValue(_)
DigitsValue(s) ==
  IF s = <<>> THEN 0 ELSE 10 * DigitsValue(SubSeq(s, 1, Len(s) - 1)) + DigitVal(s[Len(s)])

\* the number a base-10 int literal denotes
DecimalValue(s) ==
  IF s[1] = "-" THEN -DigitsValue(Tail(s))
  ELSE IF s[1] = "+" THEN DigitsValue(Tail(s))
  ELSE DigitsValue(s)

\* C4: IntValue(key) returns 0 when the key is absent or its value is not a
\* base-10 int literal within the range of int, and the number the literal
\* denotes otherwise.
C4_IntValueOrZero ==
  \A r \in Requests :
    ret[r].op = "IntValue" =>
      LET key == ret[r].key
          s   == IF key \in DOMAIN form[r] THEN form[r][key][1] ELSE <<>>
      IN  ret[r].int =
            IF key \in DOMAIN form[r] /\ IsDecimal(s)
               /\ DecimalValue(s) >= MinInt /\ DecimalValue(s) <= MaxInt
            THEN DecimalValue(s)
            ELSE 0

\* C5: Value(key) returns the request's (first) form value for key when the
\* key is present and the empty string when it is absent.
C5_ValueOrEmpty ==
  \A r \in Requests :
    ret[r].op = "Value" =>
      ret[r].str =
        IF ret[r].key \in DOMAIN form[r] THEN Head(form[r][ret[r].key]) ELSE <<>>

C5_Witness ==
  /\ ret[Solo].op = "Value"
  /\ ret[Solo].key = "x"
  /\ "x" \in DOMAIN form[Solo]
  /\ Len(form[Solo]["x"]) = 2
  /\ ret[Solo].str = <<"4">>

\* C6: a Hangup step changes the state as Response("<Hangup/>") does, and a
\* handler whose only call is Hangup puts the XML header followed by
\* <Response><Hangup/></Response> on the wire.
C6_Hangup ==
  /\ [][\A r \in Requests : Hangup(r) => ctxResponse(r, HangupText)]_vars
  /\ [](\A r \in Requests :
          pc[r] = "done" /\ log[r] = <<HangupEntry>> => w[r] = <<HangupWire>>)

C6_Witness ==
  /\ pc[Solo] = "done"
  /\ log[Solo] = <<HangupEntry>>
  /\ w[Solo] = <<HangupWire>>

\* C7: a Responsef step appends one fragment, the formatted text:
\* Responsef("<Say>%s</Say>", "Hello") changes the state as
\* Response("<Say>Hello</Say>") does and gives the same wire payload, and a
\* malformed directive (a verb of the wrong type, a missing argument, an
\* argument left over) is appended as inline text.
C7_Responsef ==
  /\ [][\A r \in Requests :
          /\ Responsef(r, SayFormatS, <<StringArg(Hello)>>) => ctxResponse(r, SayHello)
          /\ Responsef(r, SayFormatD, <<StringArg(Hello)>>) => ctxResponse(r, SayWrongType)
          /\ Responsef(r, SayFormatS, <<>>) => ctxResponse(r, SayMissing)
          /\ Responsef(r, SayFormatS, <<StringArg(Hello), IntArg(42)>>) =>
               ctxResponse(r, SayExtra)]_vars
  /\ [](\A r \in Requests :
          pc[r] = "done" /\ log[r] = <<ResponsefEntry(SayFormatS, <<StringArg(Hello)>>)>> =>
            w[r] = <<SayHelloWire>>)

C7_Witness ==
  /\ pc[Solo] = "done"
  /\ log[Solo] = <<ResponsefEntry(SayFormatS, <<StringArg(Hello)>>)>>
  /\ w[Solo] = <<SayHelloWire>>

\* C8: requests served concurrently share no buffer: the buffer of each
\* request holds the opening tag and the fragments appended through its own
\* context in its own call order, and its wire payload is the envelope
\* around them.
C8_Isolation ==
  \A r \in Requests :
    /\ \A q \in Requests : q # r /\ cb[r] # 0 => cb[q] # cb[r]
    /\ pc[r] \in {"handler", "returned"} => buf[cb[r]] = start \o Appended(r)
    /\ pc[r] = "closed" => buf[cb[r]] = Envelope(r)
    /\ pc[r] = "done" => w[r] = <<Envelope(r)>>
    /\ pc[r] # "done" => w[r] = <<>>

C8_Witness ==
  /\ pc[1] = "done"
  /\ pc[2] = "closed"
  /\ log[1] = <<HangupEntry, ResponseEntry(SayHi)>>
  /\ log[2] = <<ResponseEntry(SayHi), HangupEntry>>
  /\ w[1] = <<start \o HangupTag \o SayHi \o end>>

\* C9: a step in which a handler calls Value or IntValue (a call that is not
\* logged as an append) leaves every buffer and everything handed to the
\* response writers unchanged, and a step that appends (in the handler or
\* on a kept context) leaves the form values unchanged.
C9_Frame ==
  [][\A r \in Requests :
       /\ ncalls'[r] # ncalls[r] /\ log'[r] = log[r] => buf' = buf /\ w' = w
       /\ log'[r] # log[r] \/ late'[r] # late[r] => form' = form]_vars

C9_Witness ==
  /\ pc[Solo] = "done"
  /\ ret[Solo].op = "Value"
  /\ ret[Solo].str = V42
  /\ log[Solo] = <<ResponseEntry(SayHi)>>
  /\ w[Solo] = <<start \o SayHi \o end>>

\* C10: while the handler runs, and after it panicked, the response writer
\* has been handed nothing, whatever was appended, and the buffer of a
\* panicked request holds no closing tag; the response writer is handed
\* bytes only by a ServeHTTP whose handler returned.
C10_NoFlushWithoutReturn ==
  \A r \in Requests :
    /\ pc[r] \in {"handler", "panicked"} =>
         w[r] = <<>> /\ buf[cb[r]] = start \o Appended(r)
    /\ w[r] # <<>> => pc[r] = "done"

C10_Witness ==
  /\ pc[Solo] = "panicked"
  /\ Len(log[Solo]) = MaxCalls
  /\ w[Solo] = <<>>

====
